---- MODULE Spec2Model ----
(***************************************************************************)
(* A model of nn/src/lib.rs: the NeuralNetwork constructors (new,          *)
(* new_from_vecs), the forward pass (_forward_pass_one_step,               *)
(* calculate_all_activation_values) and mean_square_error.                 *)
(*                                                                         *)
(* A ColumnVector is a sequence of numbers, a Matrix is its `data`: a      *)
(* sequence of rows, each a sequence of numbers.  f32 values are modelled  *)
(* by small integers, on which every operation used here is exact; the     *)
(* quotient of mean_square_error is kept as a fraction.                    *)
(***************************************************************************)
EXTENDS Integers, Sequences, FiniteSets

VARIABLES
    pc,                 \* "start", "ready", "loop", "loss", "panicked"
    ctor,               \* the arguments of the constructor call
    call,               \* the arguments of the last call made after construction
    weights,            \* NeuralNetwork.weights
    biases,             \* NeuralNetwork.biases
    activation_values,  \* NeuralNetwork.activation_values, front first
    index,              \* the loop variable of calculate_all_activation_values
    loss                \* the value returned by mean_square_error

vars == <<pc, ctor, call, weights, biases, activation_values, index, loss>>

-----------------------------------------------------------------------------
(* Bounds of the model *)

MaxLayers == 4      \* longest layer-size sequence
MaxWidth == 2       \* widest layer
MaxRandDraws == 4   \* most random draws one construction makes
MaxLossElems == 4   \* most numbers in one batch given to mean_square_error

Floats == {-1, 0, 1}        \* sample f32 values of weights, biases and inputs
LossFloats == {0, 1, 2}     \* sample f32 values of the loss batches

None == [some |-> FALSE]
Some(x) == [some |-> TRUE, value |-> x]

Min(a, b) == IF a < b THEN a ELSE b

\* all sequences over S of length lo..hi
SeqsOf(S, lo, hi) == UNION {[1..n -> S] : n \in lo..hi}

LayerSizeSeqs == SeqsOf(0..MaxWidth, 0, MaxLayers)

-----------------------------------------------------------------------------
(* The linear-algebra primitives of the `matrix` crate *)

ColumnVector_new_with_elements(len, value) == [k \in 1..len |-> value]

ColumnVector_new_with_number_generator(len, draws, base) ==
    [k \in 1..len |-> draws[base + k]]

Matrix_new_with_elements(rows, cols, value) ==
    [r \in 1..rows |-> [c \in 1..cols |-> value]]

Matrix_new_with_number_generate(rows, cols, draws, base) ==
    [r \in 1..rows |-> [c \in 1..cols |-> draws[base + (r - 1) * cols + c]]]

Matrix_identity(n) ==
    [r \in 1..n |-> [c \in 1..n |-> IF r = c THEN 1 ELSE 0]]

RECURSIVE Dot(_, _, _)
Dot(row, v, n) == IF n = 0 THEN 0 ELSE Dot(row, v, n - 1) + row[n] * v[n]

\* self._mul_matrix(matrix, &mut result): the product written into result
mul_matrix_fits(self, matrix, result) ==
    /\ Len(matrix) = Len(result)
    /\ \A r \in 1..Len(matrix) : Len(matrix[r]) = Len(self)

mul_matrix(self, matrix, result) ==
    [r \in 1..Len(result) |-> Dot(matrix[r], self, Len(self))]

\* result += bias
add_assign_fits(result, bias) == Len(result) = Len(bias)

add_assign(result, bias) == [k \in 1..Len(result) |-> result[k] + bias[k]]

\* self._sub(other, &mut result)
sub(self, other, result) == [k \in 1..Len(result) |-> self[k] - other[k]]

RECURSIVE SumSquares(_, _)
SumSquares(v, n) == IF n = 0 THEN 0 ELSE SumSquares(v, n - 1) + v[n] * v[n]

magnitude_squared(v) == SumSquares(v, Len(v))

-----------------------------------------------------------------------------
(* NeuralNetwork::new_from_vecs *)

SynthBiases(w) ==
    [i \in 1..Len(w) |-> ColumnVector_new_with_elements(Len(w[i][1]), 0)]

SynthActivationValues(w) ==
    [i \in 1..Len(w) |-> ColumnVector_new_with_elements(Len(w[i][1]), 0)]

\* matrix.data[0] of a matrix without rows is an index out of bounds
FirstRowMissing(w, b, a) ==
    /\ ~b.some \/ ~a.some
    /\ \E i \in 1..Len(w) : Len(w[i]) = 0

new_from_vecs(w, b, a) ==
    [weights |-> w,
     biases |-> IF b.some THEN b.value ELSE SynthBiases(w),
     activation_values |-> IF a.some THEN a.value ELSE SynthActivationValues(w)]

-----------------------------------------------------------------------------
(* NeuralNetwork::new *)

\* a bug: the guard admits a single layer
TooFewLayers_OffByOne(layer_sizes) == Len(layer_sizes) < 1

TooFewLayers(layer_sizes) == Len(layer_sizes) < 2

\* the number of draws made for the layers before layer i
RECURSIVE DrawBase(_, _)
DrawBase(layer_sizes, i) ==
    IF i <= 1 THEN 0
    ELSE DrawBase(layer_sizes, i - 1)
         + layer_sizes[i] * layer_sizes[i - 1] + layer_sizes[i]

NumDraws(layer_sizes, default_value) ==
    IF default_value.some \/ TooFewLayers(layer_sizes) THEN 0
    ELSE DrawBase(layer_sizes, Len(layer_sizes))

\* a bug: the rows and columns of the weight matrix exchanged
NewWeight_Transposed(layer_sizes, i, default_value, draws) ==
    IF default_value.some
    THEN Matrix_new_with_elements(layer_sizes[i], layer_sizes[i + 1], default_value.value)
    ELSE Matrix_new_with_number_generate(layer_sizes[i], layer_sizes[i + 1], draws,
                                         DrawBase(layer_sizes, i))

NewWeight(layer_sizes, i, default_value, draws) ==
    IF default_value.some
    THEN Matrix_new_with_elements(layer_sizes[i + 1], layer_sizes[i], default_value.value)
    ELSE Matrix_new_with_number_generate(layer_sizes[i + 1], layer_sizes[i], draws,
                                         DrawBase(layer_sizes, i))

NewBias(layer_sizes, i, default_value, draws) ==
    IF default_value.some
    THEN ColumnVector_new_with_elements(layer_sizes[i + 1], default_value.value)
    ELSE ColumnVector_new_with_number_generator(layer_sizes[i + 1], draws,
             DrawBase(layer_sizes, i) + layer_sizes[i + 1] * layer_sizes[i])

NewWeights(layer_sizes, default_value, draws) ==
    [i \in 1..(Len(layer_sizes) - 1) |-> NewWeight(layer_sizes, i, default_value, draws)]

NewBiases(layer_sizes, default_value, draws) ==
    [i \in 1..(Len(layer_sizes) - 1) |-> NewBias(layer_sizes, i, default_value, draws)]

\* a bug: the buffer of the input layer is not pushed
NewActivationValues_NoInputBuffer(layer_sizes) ==
    [i \in 1..(Len(layer_sizes) - 1) |->
        ColumnVector_new_with_elements(layer_sizes[i + 1], 0)]

NewActivationValues(layer_sizes) ==
    <<ColumnVector_new_with_elements(layer_sizes[1], 0)>>
    \o [i \in 1..(Len(layer_sizes) - 1) |->
            ColumnVector_new_with_elements(layer_sizes[i + 1], 0)]

NoCall == [op |-> "none", input |-> <<>>, layer_index |-> 0]

Init ==
    /\ pc = "start"
    /\ ctor = [op |-> "none"]
    /\ call = NoCall
    /\ weights = <<>>
    /\ biases = <<>>
    /\ activation_values = <<>>
    /\ index = 0
    /\ loss = [num |-> 0, den |-> 1]

\* new takes &self and never reads it: the result depends on the arguments alone;
\* draws are the values element_gen returns, in the order of the calls
New(layer_sizes, default_value, draws) ==
    /\ pc = "start"
    /\ ctor' = [op |-> "new", layer_sizes |-> layer_sizes, default_value |-> default_value]
    /\ IF TooFewLayers(layer_sizes)
       THEN /\ pc' = "panicked"
            /\ UNCHANGED <<weights, biases, activation_values>>
       ELSE LET net == new_from_vecs(NewWeights(layer_sizes, default_value, draws),
                                     Some(NewBiases(layer_sizes, default_value, draws)),
                                     Some(NewActivationValues(layer_sizes)))
            IN /\ pc' = "ready"
               /\ weights' = net.weights
               /\ biases' = net.biases
               /\ activation_values' = net.activation_values
    /\ UNCHANGED <<call, index, loss>>

NewFromVecs(w, b, a) ==
    /\ pc = "start"
    /\ ctor' = [op |-> "new_from_vecs", weights |-> w, biases |-> b, activation_values |-> a]
    /\ IF FirstRowMissing(w, b, a)
       THEN /\ pc' = "panicked"
            /\ UNCHANGED <<weights, biases, activation_values>>
       ELSE LET net == new_from_vecs(w, b, a)
            IN /\ pc' = "ready"
               /\ weights' = net.weights
               /\ biases' = net.biases
               /\ activation_values' = net.activation_values
    /\ UNCHANGED <<call, index, loss>>

\* the arguments given to new_from_vecs: a chain of constant-filled or identity
\* matrices shaped by a layer-size sequence, biases and buffers of matching sizes
FillChain(sizes, value) ==
    [i \in 1..(Len(sizes) - 1) |-> Matrix_new_with_elements(sizes[i + 1], sizes[i], value)]

IdentityChain(n, k) == [i \in 1..n |-> Matrix_identity(k)]

WeightArgs(sizes) ==
    {FillChain(sizes, v) : v \in Floats}
    \cup (IF \A i \in 1..Len(sizes) : sizes[i] = sizes[1]
          THEN {IdentityChain(Len(sizes) - 1, sizes[1])} ELSE {})

BiasArgs(sizes) ==
    {None} \cup
    {Some([i \in 1..(Len(sizes) - 1) |-> ColumnVector_new_with_elements(sizes[i + 1], v)])
        : v \in Floats}

ActivationArgs(sizes) ==
    {None, Some([i \in 1..Len(sizes) |-> ColumnVector_new_with_elements(sizes[i], 0)])}

-----------------------------------------------------------------------------
(* NeuralNetwork::_forward_pass_one_step *)

\* a bug: the two buffers pushed back in the other order
PushFrontBoth_ResultFirst(rest, result, input) == <<result>> \o (<<input>> \o rest)

\* push_front(result); push_front(input)
PushFrontBoth(rest, result, input) == <<input>> \o (<<result>> \o rest)

\* The queue the step leaves behind, and whether it panicked on the way:
\* the two pops, the two indexings, the product and the sum, in that order.
forward_pass_one_step(queue, w, b, layer_index) ==
    IF Len(queue) = 0 THEN [panicked |-> TRUE, queue |-> queue]
    ELSE IF Len(queue) = 1 THEN [panicked |-> TRUE, queue |-> Tail(queue)]
    ELSE LET input == queue[1]
             result == queue[2]
             rest == Tail(Tail(queue))
         IN IF layer_index + 1 > Len(w) \/ layer_index + 1 > Len(b)
            THEN [panicked |-> TRUE, queue |-> rest]
            ELSE IF ~mul_matrix_fits(input, w[layer_index + 1], result)
            THEN [panicked |-> TRUE, queue |-> rest]
            ELSE LET product == mul_matrix(input, w[layer_index + 1], result)
                 IN IF ~add_assign_fits(product, b[layer_index + 1])
                    THEN [panicked |-> TRUE, queue |-> rest]
                    ELSE [panicked |-> FALSE,
                          queue |-> PushFrontBoth(rest,
                                        add_assign(product, b[layer_index + 1]), input)]

\* a direct call of the public _forward_pass_one_step
DirectStep(layer_index) ==
    /\ pc = "ready"
    /\ call' = [op |-> "step", input |-> <<>>, layer_index |-> layer_index]
    /\ LET r == forward_pass_one_step(activation_values, weights, biases, layer_index)
       IN /\ activation_values' = r.queue
          /\ pc' = IF r.panicked THEN "panicked" ELSE "ready"
    /\ UNCHANGED <<ctor, weights, biases, index, loss>>

-----------------------------------------------------------------------------
(* NeuralNetwork::calculate_all_activation_values *)

\* self.activation_values[0] = input
CalculateBegin(input) ==
    /\ pc = "ready"
    /\ call' = [op |-> "calculate", input |-> input, layer_index |-> 0]
    /\ IF Len(activation_values) = 0
       THEN /\ pc' = "panicked"
            /\ UNCHANGED activation_values
       ELSE /\ pc' = "loop"
            /\ activation_values' = [activation_values EXCEPT ![1] = input]
    /\ index' = 0
    /\ UNCHANGED <<ctor, weights, biases, loss>>

\* one iteration of: for index in 0..self.weights.len()
LoopStep ==
    /\ pc = "loop"
    /\ index < Len(weights)
    /\ LET r == forward_pass_one_step(activation_values, weights, biases, index)
       IN /\ activation_values' = r.queue
          /\ pc' = IF r.panicked THEN "panicked" ELSE "loop"
          /\ index' = IF r.panicked THEN index ELSE index + 1
    /\ UNCHANGED <<ctor, call, weights, biases, loss>>

\* the loop is exhausted and the call returns
LoopExit ==
    /\ pc = "loop"
    /\ index >= Len(weights)
    /\ pc' = "ready"
    /\ index' = 0
    /\ UNCHANGED <<ctor, call, weights, biases, activation_values, loss>>

-----------------------------------------------------------------------------
(* mean_square_error *)

\* the zip loop from sample k on, with the accumulator and the scratch buffer
RECURSIVE LossLoop(_, _, _, _, _)
LossLoop(output_vectors, desired_output_vectors, k, acc, result) ==
    IF k > Min(Len(output_vectors), Len(desired_output_vectors)) THEN acc
    ELSE LET diff == sub(output_vectors[k], desired_output_vectors[k], result)
         IN LossLoop(output_vectors, desired_output_vectors, k + 1,
                     acc + magnitude_squared(diff), diff)

\* a bug: the factor 2 of the divisor is lost
LossDivisor_NoHalf(output_vectors) == Len(output_vectors)

\* 2.0 * output_vectors.len() as f32
LossDivisor(output_vectors) == 2 * Len(output_vectors)

\* the quotient acc / divisor, kept as a fraction
mean_square_error(output_vectors, desired_output_vectors) ==
    LET result == ColumnVector_new_with_elements(Len(output_vectors[1]), 0)
        acc == LossLoop(output_vectors, desired_output_vectors, 1, 0, result)
    IN [num |-> acc, den |-> LossDivisor(output_vectors)]

MeanSquareError(output_vectors, desired_output_vectors) ==
    /\ pc = "start"
    /\ call' = [op |-> "mean_square_error",
                input |-> <<output_vectors, desired_output_vectors>>, layer_index |-> 0]
    /\ IF Len(output_vectors) = 0
       THEN pc' = "panicked" /\ UNCHANGED loss
       ELSE /\ pc' = "loss"
            /\ loss' = mean_square_error(output_vectors, desired_output_vectors)
    /\ UNCHANGED <<ctor, weights, biases, activation_values, index>>

-----------------------------------------------------------------------------
(* The calls a program makes *)

CallNew ==
    /\ pc = "start"
    /\ \E layer_sizes \in LayerSizeSeqs, default_value \in {None} \cup {Some(v) : v \in Floats} :
        /\ NumDraws(layer_sizes, default_value) <= MaxRandDraws
        /\ \E draws \in [1..NumDraws(layer_sizes, default_value) -> Floats] :
              New(layer_sizes, default_value, draws)

CallNewFromVecs ==
    /\ pc = "start"
    /\ \E sizes \in LayerSizeSeqs :
        /\ Len(sizes) >= 1
        /\ \E w \in WeightArgs(sizes), b \in BiasArgs(sizes), a \in ActivationArgs(sizes) :
              NewFromVecs(w, b, a)

\* an input as long as layer 0's buffer (any length when there is no buffer)
CallCalculate ==
    /\ pc = "ready"
    /\ \E len \in 0..MaxWidth :
        /\ Len(activation_values) > 0 => len = Len(activation_values[1])
        /\ \E input \in [1..len -> Floats] : CalculateBegin(input)

CallStep == \E layer_index \in 0..(MaxLayers - 1) : DirectStep(layer_index)

\* two batches of n vectors of one length
CallMeanSquareError ==
    /\ pc = "start"
    /\ \E n \in 0..MaxLossElems, len \in 0..MaxWidth :
        /\ n * len <= MaxLossElems
        /\ \E output_vectors \in [1..n -> [1..len -> LossFloats]],
              desired_output_vectors \in [1..n -> [1..len -> LossFloats]] :
              MeanSquareError(output_vectors, desired_output_vectors)

Next ==
    \/ CallNew
    \/ CallNewFromVecs
    \/ CallCalculate
    \/ LoopStep
    \/ LoopExit
    \/ CallStep
    \/ CallMeanSquareError

Spec == Init /\ [][Next]_vars

-----------------------------------------------------------------------------
(* Properties *)

Returned(op) == pc = "ready" /\ call.op = op

\* a step of _forward_pass_one_step that returned, from the loop or called directly
StepReturned ==
    \/ pc = "loop" /\ pc' = "loop" /\ index' = index + 1
    \/ pc = "ready" /\ pc' = "ready" /\ call'.op = "step"

StepIndex == IF pc = "loop" THEN index ELSE call'.layer_index

IsZeroVector(v) == \A k \in 1..Len(v) : v[k] = 0

\* the arguments of new_from_vecs: identity matrices alone, no biases, no buffers
IdentityNet ==
    /\ ctor.op = "new_from_vecs"
    /\ ~ctor.biases.some
    /\ ~ctor.activation_values.some
    /\ Len(ctor.weights) >= 1
    /\ \A i \in 1..Len(ctor.weights) :
          ctor.weights[i] = Matrix_identity(Len(ctor.weights[1]))

\* every weight matrix has a row and every row an element
NoEmptyMatrix ==
    \A i \in 1..Len(weights) :
        Len(weights[i]) >= 1 /\ \A r \in 1..Len(weights[i]) : Len(weights[i][r]) >= 1

\* the shape invariants of the data model
WellShaped ==
    /\ Len(weights) = Len(biases)
    /\ Len(weights) = Len(activation_values) - 1
    /\ \A i \in 1..Len(weights) :
          /\ Len(weights[i]) = Len(biases[i])
          /\ Len(weights[i]) = Len(activation_values[i + 1])
          /\ \A r \in 1..Len(weights[i]) : Len(weights[i][r]) = Len(activation_values[i])

\* C1: once calculate_all_activation_values(v) has returned on a network made by
\* new_from_vecs from identity matrices alone, every activation buffer equals v.
C1_IdentityPassKeepsInput ==
    (IdentityNet /\ Returned("calculate")) =>
        \A k \in 1..Len(activation_values) : activation_values[k] = call.input

\* C2: a returned step on a queue of two or more buffers leaves the product plus
\* the bias at the front of the queue and the original front second (stated for
\* matrices that have rows and columns).
C2_StepPutsOutputFirst ==
    [][(StepReturned /\ Len(activation_values) >= 2 /\ NoEmptyMatrix) =>
        /\ activation_values'[1] =
              add_assign(mul_matrix(activation_values[1], weights[StepIndex + 1],
                                    activation_values[2]),
                         biases[StepIndex + 1])
        /\ activation_values'[2] = activation_values[1]]_vars

\* C3: once calculate_all_activation_values(input) has returned on a well-shaped
\* network, buffer 0 is the input and every buffer k >= 1 is buffer k-1 times
\* weights[k-1] plus biases[k-1].
C3_PassFillsEveryLayer ==
    (WellShaped /\ Returned("calculate")) =>
        /\ activation_values[1] = call.input
        /\ \A k \in 1..Len(weights) :
              activation_values[k + 1] =
                  add_assign(mul_matrix(activation_values[k], weights[k],
                                        activation_values[k + 1]),
                             biases[k])

\* C4: a network made by new from L >= 2 layer sizes, in either fill mode, has
\* L-1 weight matrices, L-1 bias vectors and L activation buffers.
C4_NewCounts ==
    (ctor.op = "new" /\ Len(ctor.layer_sizes) >= 2 /\ pc # "panicked") =>
        /\ pc \in {"ready", "loop"}
        /\ Len(weights) = Len(ctor.layer_sizes) - 1
        /\ Len(biases) = Len(ctor.layer_sizes) - 1
        /\ Len(activation_values) = Len(ctor.layer_sizes)

C4_Witness ==
    /\ ctor.op = "new"
    /\ ~ctor.default_value.some
    /\ Len(ctor.layer_sizes) = 3
    /\ \A i \in 1..3 : ctor.layer_sizes[i] >= 1
    /\ pc = "ready"

\* C5: new with fewer than two layer sizes panics and builds no network,
\* whatever the fill value.
C5_NewPanics ==
    (ctor.op = "new" /\ Len(ctor.layer_sizes) < 2) =>
        /\ pc = "panicked"
        /\ weights = <<>>
        /\ biases = <<>>
        /\ activation_values = <<>>

C5_Witness ==
    /\ ctor.op = "new"
    /\ Len(ctor.layer_sizes) = 1
    /\ ctor.default_value.some
    /\ pc = "panicked"

\* C6: new with a fixed fill value v gives weights[i] of sizes[i+1] rows of
\* sizes[i] elements, biases[i] of sizes[i+1] elements, all equal to v, and,
\* as returned, activation buffer i of sizes[i] zeros.
C6_NewFixedFill ==
    (ctor.op = "new" /\ Len(ctor.layer_sizes) >= 2 /\ ctor.default_value.some
         /\ pc # "panicked") =>
        LET sizes == ctor.layer_sizes
            v == ctor.default_value.value
        IN /\ Len(weights) = Len(sizes) - 1
           /\ Len(biases) = Len(sizes) - 1
           /\ \A i \in 1..(Len(sizes) - 1) :
                 /\ Len(weights[i]) = sizes[i + 1]
                 /\ \A r \in 1..sizes[i + 1] :
                       /\ Len(weights[i][r]) = sizes[i]
                       /\ \A c \in 1..sizes[i] : weights[i][r][c] = v
                 /\ Len(biases[i]) = sizes[i + 1]
                 /\ \A r \in 1..sizes[i + 1] : biases[i][r] = v
           /\ call.op = "none" =>
                 /\ Len(activation_values) = Len(sizes)
                 /\ \A i \in 1..Len(sizes) :
                       /\ Len(activation_values[i]) = sizes[i]
                       /\ IsZeroVector(activation_values[i])

C6_Witness ==
    /\ ctor.op = "new"
    /\ ctor.default_value = Some(1)
    /\ ctor.layer_sizes = <<2, 1, 2>>
    /\ pc = "ready"
    /\ call.op = "none"

\* the sum over the samples of the squared magnitude of output - desired
RECURSIVE SquaredDistance(_, _, _)
SquaredDistance(a, b, n) ==
    IF n = 0 THEN 0
    ELSE SquaredDistance(a, b, n - 1) + (a[n] - b[n]) * (a[n] - b[n])

RECURSIVE BatchSum(_, _, _)
BatchSum(outs, des, k) ==
    IF k = 0 THEN 0
    ELSE BatchSum(outs, des, k - 1) + SquaredDistance(outs[k], des[k], Len(outs[k]))

\* C7: mean_square_error of two batches of n >= 1 vectors returns the sum of the
\* squared distances divided by 2n; outputs [[1, 2]] and desired [[1, 0]] give 2.
C7_MeanSquareError ==
    (pc = "loss") =>
        LET outs == call.input[1]
            des == call.input[2]
        IN /\ loss.den # 0
           /\ loss.num * (2 * Len(outs)) = BatchSum(outs, des, Len(outs)) * loss.den
           /\ (outs = <<(<<1, 2>>)>> /\ des = <<(<<1, 0>>)>>) => loss.num = 2 * loss.den

C7_Witness ==
    /\ pc = "loss"
    /\ call.input = <<(<<(<<1, 2>>)>>), (<<(<<1, 0>>)>>)>>
    /\ loss.num = 2 * loss.den

\* C8: new_from_vecs without biases makes one zero-filled bias vector per weight
\* matrix, biases[i] as long as weights[i] has rows (stated for matrices that
\* have rows and columns).
C8_SynthBiasLength ==
    (ctor.op = "new_from_vecs" /\ ~ctor.biases.some /\ pc # "panicked"
         /\ NoEmptyMatrix) =>
        /\ Len(biases) = Len(weights)
        /\ \A i \in 1..Len(weights) :
              /\ Len(biases[i]) = Len(weights[i])
              /\ call.op = "none" => IsZeroVector(biases[i])

\* C9: every constructed network has as many bias vectors as weight matrices and
\* one more activation buffer, also after calls of calculate_all_activation_values
\* (stated for networks of one or more matrices that have rows and columns).
C9_Counts ==
    (pc \in {"ready", "loop"} /\ call.op \in {"none", "calculate"}
         /\ Len(weights) >= 1 /\ NoEmptyMatrix) =>
        /\ Len(weights) = Len(biases)
        /\ Len(biases) = Len(activation_values) - 1

====
